---------------------------- MODULE Spec2Model ----------------------------
(***************************************************************************)
(* Trainer subscription lifecycle of the gym-app backend                   *)
(* (src/server/authentication): the User row's trial / subscription /      *)
(* blocking fields, the pure lifecycle properties of the model, the        *)
(* TrialEnforcementMiddleware checkpoint, login, signup, the admin block / *)
(* unblock / subscription-update endpoints, the self-service upgrade and   *)
(* the block_expired_trials sweep.                                         *)
(*                                                                         *)
(* Dates are day numbers (timezone.now().date()); a timestamp              *)
(* (timezone.now()) is resolved to its day.  A handler reads the clock     *)
(* once: the clock advances between handlers (AdvanceDay), never inside    *)
(* one.  Python's None is NONE for text fields and None (the empty         *)
(* sequence) for dates and integers, a value v of such a field is Some(v). *)
(***************************************************************************)
EXTENDS Integers, Sequences, FiniteSets, TLC

VARIABLES
    today,      \* timezone.now().date(), a day number
    account,    \* the User row under study, or NoUser before it is created
    last,       \* the last operation and the response it gave
    trial_since, \* the day a trainer signed up, until the first admin action or upgrade
    requests,    \* the requests in flight: each one's handler, position and loaded objects
    clients,     \* the Client rows of the user, in the order of their creation
    reset_tokens, \* the PasswordResetToken rows, in the order of their creation
    passwords,   \* the password of each user
    hour         \* timezone.now() in hours, for the expiry of the reset tokens

vars == <<today, account, last, trial_since,
          requests, clients, reset_tokens, passwords, hour>>

\* The state outside the User row, which the lifecycle operations leave alone.
side_vars == <<requests, clients, reset_tokens, passwords, hour>>

-----------------------------------------------------------------------------
(* Bounds of the model *)

MaxDay == 4          \* the clock of the lifecycle runs over the days 0..MaxDay
MaxTrialDay == 16    \* the clock of an untouched trial runs over 0..MaxTrialDay
MaxSignupDay == 0    \* the row is created on one of the days 0..MaxSignupDay
MaxDate == 20        \* an admin's extension keeps trial_end_date within 0..MaxDate
MaxEvalDay == 3      \* the dates of the rows the properties are evaluated on
MaxCheckDay == 2     \* the checkpoint is evaluated on one of the days 0..MaxCheckDay
MaxCheckDate == 6    \* on rows whose trial_end_date is one of 0..MaxCheckDate
MaxUpdateDay == 3    \* a stored row is updated on one of the days 0..MaxUpdateDay
MaxUpdateDate == 5   \* and has a trial_end_date that is one of 0..MaxUpdateDate
MaxRaceDay == 2      \* two requests race on one of the days 1..MaxRaceDay
MaxClients == 6      \* a trainer has at most MaxClients client rows, removed ones included
MaxTokens == 3       \* at most MaxTokens password-reset tokens are created
MaxHour == 2         \* the reset tokens are used in the hours 0..MaxHour

(* Program constants *)

TRIAL_DAYS == 14     \* timedelta(days=14) at signup
WARN_DAYS == 3       \* the checkpoint warns when days_left <= 3

-----------------------------------------------------------------------------
(* Optional values *)

NONE == "None"       \* None in a text field
None == <<>>         \* None in a date, timestamp or integer field
Some(x) == <<x>>
Get(o) == o[1]

NoUser == [exists |-> FALSE]

\* The users that ask for password resets, and the password each one starts with.
RESET_USERS == {"ann", "bob"}
INITIAL_PASSWORD == "initial"

\* No request in flight, no client, no reset token.
SideInit ==
    /\ requests = <<>>
    /\ clients = <<>>
    /\ reset_tokens = <<>>
    /\ passwords = [u \in RESET_USERS |-> INITIAL_PASSWORD]
    /\ hour = 0

BLOCK_REASON_TRIAL ==
    "Your 14-day trial period has expired. Please contact support to upgrade your subscription."
BLOCK_REASON_ADMIN == "Account blocked by administrator"
BLOCK_MESSAGE_DEFAULT ==
    "Your account has been blocked. Please contact support for assistance."

USER_TYPES == {"trainer", "client", "admin"}
SUBSCRIPTION_STATUS_CHOICES == {"trial", "active", "expired", "cancelled", "suspended"}
PLAN_TYPE_CHOICES == {"trial", "starter", "professional", "enterprise"}

\* A fresh row as CustomUserManager.create_user stores it: the model's defaults.
NewUser(user_type, is_superuser) ==
    [ exists              |-> TRUE,
      user_type           |-> user_type,
      is_superuser        |-> is_superuser,
      trial_start_date    |-> None,
      trial_end_date      |-> None,
      subscription_status |-> NONE,
      plan_type           |-> NONE,
      client_limit        |-> None,
      account_blocked     |-> FALSE,
      block_reason        |-> NONE,
      blocked_at          |-> None ]

-----------------------------------------------------------------------------
(* The lifecycle properties of User (authentication/models.py) *)

\* Python truthiness of a DateField value: None is falsy, every date is truthy.
DateSet(d) == d # None

\* Python truthiness of an IntegerField value: None and 0 are falsy.
IntTruthy(n) == n # None /\ Get(n) # 0

\* A variant that compares with < : the end date itself no longer counts.
is_trial_active_strict(u, now_date) ==
    IF u.subscription_status # "trial" THEN FALSE
    ELSE IF ~DateSet(u.trial_end_date) THEN FALSE
    ELSE now_date < Get(u.trial_end_date)

is_trial_active(u, now_date) ==
    IF u.subscription_status # "trial" THEN FALSE
    ELSE IF ~DateSet(u.trial_end_date) THEN FALSE
    ELSE now_date <= Get(u.trial_end_date)

\* A variant that looks at the status alone.
is_subscription_active_status_only(u, now_date) ==
    u.subscription_status \in {"trial", "active"}

is_subscription_active(u, now_date) ==
    /\ u.subscription_status \in {"trial", "active"}
    /\ (is_trial_active(u, now_date) \/ u.subscription_status = "active")

Max(a, b) == IF a >= b THEN a ELSE b

\* A variant without the max(0, ...).
days_until_trial_end_signed(u, now_date) ==
    IF ~DateSet(u.trial_end_date) THEN None
    ELSE Some(Get(u.trial_end_date) - now_date)

days_until_trial_end(u, now_date) ==
    IF ~DateSet(u.trial_end_date) THEN None
    ELSE Some(Max(0, Get(u.trial_end_date) - now_date))

\* A variant that exempts the status 'active' alone.
should_be_auto_blocked_unless_active(u, now_date) ==
    IF u.user_type # "trainer" THEN FALSE
    ELSE IF u.subscription_status = "active" THEN FALSE
    ELSE IF ~DateSet(u.trial_end_date) THEN FALSE
    ELSE now_date > Get(u.trial_end_date)

\* A variant that compares with >= : the end date itself already blocks.
should_be_auto_blocked_on_end_date(u, now_date) ==
    IF u.user_type # "trainer" THEN FALSE
    ELSE IF u.subscription_status \notin {"trial", "expired"} THEN FALSE
    ELSE IF ~DateSet(u.trial_end_date) THEN FALSE
    ELSE now_date >= Get(u.trial_end_date)

should_be_auto_blocked(u, now_date) ==
    IF u.user_type # "trainer" THEN FALSE
    ELSE IF u.subscription_status \notin {"trial", "expired"} THEN FALSE
    ELSE IF ~DateSet(u.trial_end_date) THEN FALSE
    ELSE now_date > Get(u.trial_end_date)

PlanDefaultLimit(plan_type) ==
    CASE plan_type = "trial"        -> 5
      [] plan_type = "starter"      -> 10
      [] plan_type = "professional" -> 50
      [] plan_type = "enterprise"   -> -1
      [] OTHER                      -> 5

get_client_limit(u) ==
    IF IntTruthy(u.client_limit) THEN Get(u.client_limit)
    ELSE PlanDefaultLimit(u.plan_type)

-----------------------------------------------------------------------------
(* Responses *)

\* What an operation answered: the HTTP status (0 when process_request
\* returns None and the request goes on to its view), the error or status
\* word of the body, the message shown, the X-Trial-Days-Left header and
\* whether a token was handed out.
Resp(op, code, body) ==
    [ op |-> op, code |-> code, body |-> body,
      message |-> NONE, warn |-> None, token |-> FALSE ]

-----------------------------------------------------------------------------
(* The access checkpoint: TrialEnforcementMiddleware.process_request *)

\* A request path is the sequence of its segments; the exempt prefixes.
EXEMPT_PATHS ==
    { <<"api", "auth", "login">>, <<"api", "auth", "signup">>,
      <<"api", "auth", "logout">>, <<"api", "auth", "password-reset">>,
      <<"api", "auth", "subscription", "status">>,
      <<"api", "auth", "subscription", "upgrade">>,
      <<"api", "auth", "me">>, <<"api", "auth", "terms">>,
      <<"admin">>, <<"static">>, <<"media">> }

StartsWith(path, prefix) ==
    /\ Len(prefix) <= Len(path)
    /\ \A i \in 1..Len(prefix) : path[i] = prefix[i]

IsExemptPath(path) == \E prefix \in EXEMPT_PATHS : StartsWith(path, prefix)

\* A variant without the superuser / admin return.
PassesThrough_no_admin_return(path, authenticated, u) ==
    IF IsExemptPath(path) THEN TRUE
    ELSE IF ~authenticated THEN TRUE
    ELSE u.user_type # "trainer"

\* The four early returns of process_request: exempt path, unauthenticated
\* request, superuser or admin, any other non-trainer.
PassesThrough(path, authenticated, u) ==
    IF IsExemptPath(path) THEN TRUE
    ELSE IF ~authenticated THEN TRUE
    ELSE IF u.is_superuser \/ u.user_type = "admin" THEN TRUE
    ELSE u.user_type # "trainer"

\* A variant that also moves the status to 'expired'.
AutoBlock_marks_expired(u, now) ==
    [u EXCEPT !.account_blocked = TRUE,
              !.block_reason = BLOCK_REASON_TRIAL,
              !.blocked_at = Some(now),
              !.subscription_status = "expired"]

\* A variant that leaves blocked_at alone.
AutoBlock_no_timestamp(u, now) ==
    [u EXCEPT !.account_blocked = TRUE,
              !.block_reason = BLOCK_REASON_TRIAL]

\* The auto-block write of the checkpoint (update_fields: the three block fields).
AutoBlock(u, now) ==
    [u EXCEPT !.account_blocked = TRUE,
              !.block_reason = BLOCK_REASON_TRIAL,
              !.blocked_at = Some(now)]

\* A variant without the 'not already blocked' test.
CheckpointAutoBlock_unguarded(u, now) ==
    IF should_be_auto_blocked(u, now)
    THEN AutoBlock(u, now)
    ELSE u

\* The row after the auto-block step of the checkpoint.
CheckpointAutoBlock(u, now) ==
    IF should_be_auto_blocked(u, now) /\ ~u.account_blocked
    THEN AutoBlock(u, now)
    ELSE u

\* A variant that looks at the subscription before the block.
CheckpointDecision_subscription_first(u, now) ==
    IF u.subscription_status # NONE /\ ~is_subscription_active(u, now)
    THEN Resp("checkpoint", 402, "Subscription expired")
    ELSE IF u.account_blocked
    THEN [Resp("checkpoint", 403, "Account blocked") EXCEPT
            !.message = IF u.block_reason \notin {NONE, ""}
                        THEN u.block_reason ELSE BLOCK_MESSAGE_DEFAULT]
    ELSE IF /\ u.subscription_status = "trial"
            /\ days_until_trial_end(u, now) # None
            /\ Get(days_until_trial_end(u, now)) <= WARN_DAYS
    THEN [Resp("checkpoint", 0, "pass") EXCEPT !.warn = days_until_trial_end(u, now)]
    ELSE Resp("checkpoint", 0, "pass")

\* A variant without the pass for a row that has no subscription_status.
CheckpointDecision_no_null_pass(u, now) ==
    IF u.account_blocked
    THEN [Resp("checkpoint", 403, "Account blocked") EXCEPT
            !.message = IF u.block_reason \notin {NONE, ""}
                        THEN u.block_reason ELSE BLOCK_MESSAGE_DEFAULT]
    ELSE IF ~is_subscription_active(u, now)
    THEN Resp("checkpoint", 402, "Subscription expired")
    ELSE IF /\ u.subscription_status = "trial"
            /\ days_until_trial_end(u, now) # None
            /\ Get(days_until_trial_end(u, now)) <= WARN_DAYS
    THEN [Resp("checkpoint", 0, "pass") EXCEPT !.warn = days_until_trial_end(u, now)]
    ELSE Resp("checkpoint", 0, "pass")

\* A variant that warns below three days only.
CheckpointDecision_warn_strict(u, now) ==
    IF u.account_blocked
    THEN [Resp("checkpoint", 403, "Account blocked") EXCEPT
            !.message = IF u.block_reason \notin {NONE, ""}
                        THEN u.block_reason ELSE BLOCK_MESSAGE_DEFAULT]
    ELSE IF u.subscription_status = NONE
    THEN Resp("checkpoint", 0, "pass")
    ELSE IF ~is_subscription_active(u, now)
    THEN Resp("checkpoint", 402, "Subscription expired")
    ELSE IF /\ u.subscription_status = "trial"
            /\ days_until_trial_end(u, now) # None
            /\ Get(days_until_trial_end(u, now)) < WARN_DAYS
    THEN [Resp("checkpoint", 0, "pass") EXCEPT !.warn = days_until_trial_end(u, now)]
    ELSE Resp("checkpoint", 0, "pass")

\* The answer of the checkpoint for a trainer, after the auto-block step.
CheckpointDecision(u, now) ==
    IF u.account_blocked
    THEN [Resp("checkpoint", 403, "Account blocked") EXCEPT
            !.message = IF u.block_reason \notin {NONE, ""}
                        THEN u.block_reason ELSE BLOCK_MESSAGE_DEFAULT]
    ELSE IF u.subscription_status = NONE
    THEN Resp("checkpoint", 0, "pass")
    ELSE IF ~is_subscription_active(u, now)
    THEN Resp("checkpoint", 402, "Subscription expired")
    ELSE IF /\ u.subscription_status = "trial"
            /\ days_until_trial_end(u, now) # None
            /\ Get(days_until_trial_end(u, now)) <= WARN_DAYS
    THEN [Resp("checkpoint", 0, "pass") EXCEPT !.warn = days_until_trial_end(u, now)]
    ELSE Resp("checkpoint", 0, "pass")

Paths ==
    { <<"api", "clients">>, <<"api", "auth", "admin", "trainers">>,
      <<"api", "auth", "subscription", "upgrade">>, <<"admin", "login">> }

process_request(path, authenticated) ==
    /\ authenticated => account.exists
    /\ IF PassesThrough(path, authenticated, account)
       THEN /\ account' = account
            /\ last' = Resp("checkpoint", 0, "pass")
       ELSE /\ account' = CheckpointAutoBlock(account, today)
            /\ last' = CheckpointDecision(account', today)
    /\ UNCHANGED <<today, trial_since>>
    /\ UNCHANGED side_vars

-----------------------------------------------------------------------------
(* Creating the row: signup, the admin's trainer creation, create_superuser *)

\* A variant whose trial ends a day early.
InitTrial_short(u, now_date) ==
    [u EXCEPT !.trial_start_date = Some(now_date),
              !.trial_end_date = Some(now_date + TRIAL_DAYS - 1),
              !.subscription_status = "trial",
              !.plan_type = "trial",
              !.client_limit = Some(5)]

\* The trial fields SignupView.post gives a trainer.
InitTrial(u, now_date) ==
    [u EXCEPT !.trial_start_date = Some(now_date),
              !.trial_end_date = Some(now_date + TRIAL_DAYS),
              !.subscription_status = "trial",
              !.plan_type = "trial",
              !.client_limit = Some(5)]

\* SignupView.post: the serializer refuses a username that exists.
SignupView_post(user_type) ==
    /\ IF account.exists
       THEN /\ account' = account
            /\ last' = Resp("signup", 400, "Username already exists")
            /\ UNCHANGED trial_since
       ELSE /\ today <= MaxSignupDay
            /\ account' = IF user_type = "trainer"
                          THEN InitTrial(NewUser(user_type, FALSE), today)
                          ELSE NewUser(user_type, FALSE)
            /\ last' = [Resp("signup", 201, "created") EXCEPT !.token = TRUE]
            /\ trial_since' = IF user_type = "trainer" THEN Some(today) ELSE None
    /\ UNCHANGED today
    /\ UNCHANGED side_vars

\* TrainerCreateView with TrainerCreateSerializer.create: a trainer row with
\* no trial or subscription field set.
TrainerCreateView_post ==
    /\ IF account.exists
       THEN /\ account' = account
            /\ last' = Resp("trainer_create", 400, "Username already exists")
       ELSE /\ today <= MaxSignupDay
            /\ account' = NewUser("trainer", FALSE)
            /\ last' = Resp("trainer_create", 201, "created")
    /\ UNCHANGED <<today, trial_since>>
    /\ UNCHANGED side_vars

\* create_superuser.py: user_type keeps its default 'trainer'.
create_superuser ==
    /\ ~account.exists
    /\ today <= MaxSignupDay
    /\ account' = NewUser("trainer", TRUE)
    /\ last' = Resp("create_superuser", 0, "created")
    /\ UNCHANGED <<today, trial_since>>
    /\ UNCHANGED side_vars

\* make_admin: user_type becomes 'admin', with --superuser also is_superuser.
make_admin(superuser) ==
    /\ account.exists
    /\ account' = [account EXCEPT !.user_type = "admin",
                                  !.is_superuser = @ \/ superuser]
    /\ last' = Resp("make_admin", 0, "updated")
    /\ trial_since' = None
    /\ UNCHANGED today
    /\ UNCHANGED side_vars

-----------------------------------------------------------------------------
(* LoginView.post *)

\* A variant that blocks at login only while the status is still 'trial'.
LoginAutoBlock_trial_only(u, now) ==
    IF /\ u.user_type = "trainer"
       /\ should_be_auto_blocked(u, now)
       /\ u.subscription_status = "trial"
       /\ ~u.account_blocked
    THEN [u EXCEPT !.account_blocked = TRUE,
                   !.block_reason = BLOCK_REASON_TRIAL,
                   !.blocked_at = Some(now)]
    ELSE u

\* The auto-block write of the login (update_fields: the three block fields).
LoginAutoBlock(u, now) ==
    IF u.user_type = "trainer" /\ should_be_auto_blocked(u, now) /\ ~u.account_blocked
    THEN [u EXCEPT !.account_blocked = TRUE,
                   !.block_reason = BLOCK_REASON_TRIAL,
                   !.blocked_at = Some(now)]
    ELSE u

\* A variant that refuses the login of every blocked user.
LoginDecision_any_user_type(u) ==
    IF u.account_blocked
    THEN [Resp("login", 403, "Account blocked") EXCEPT
            !.message = IF u.block_reason \notin {NONE, ""}
                        THEN u.block_reason ELSE BLOCK_MESSAGE_DEFAULT]
    ELSE [Resp("login", 200, "ok") EXCEPT !.token = TRUE]

\* The answer of the login after the auto-block step; the token flag stands
\* for the success branch, which saves last_login and issues the token.
LoginDecision(u) ==
    IF u.user_type = "trainer" /\ u.account_blocked
    THEN [Resp("login", 403, "Account blocked") EXCEPT
            !.message = IF u.block_reason \notin {NONE, ""}
                        THEN u.block_reason ELSE BLOCK_MESSAGE_DEFAULT]
    ELSE [Resp("login", 200, "ok") EXCEPT !.token = TRUE]

LoginView_post(credentials_ok) ==
    /\ IF ~(account.exists /\ credentials_ok)
       THEN /\ account' = account
            /\ last' = Resp("login", 400, "Invalid username or password")
       ELSE /\ account' = LoginAutoBlock(account, today)
            /\ last' = LoginDecision(account')
    /\ UNCHANGED <<today, trial_since>>
    /\ UNCHANGED side_vars

-----------------------------------------------------------------------------
(* The admin's block and unblock *)

ABSENT == "absent"   \* a key the request body does not carry

BlockReasonInputs == {ABSENT, "Chargeback on the last invoice"}

\* The write of TrainerBlockView.post.
AdminBlock(u, block_reason, now) ==
    [u EXCEPT !.account_blocked = TRUE,
              !.block_reason = block_reason,
              !.blocked_at = Some(now)]

TrainerBlockView_post(reason_input) ==
    /\ IF ~(account.exists /\ account.user_type = "trainer")
       THEN /\ account' = account
            /\ last' = Resp("block", 404, "Trainer not found")
       ELSE LET block_reason == IF reason_input = ABSENT
                                THEN BLOCK_REASON_ADMIN ELSE reason_input
            IN /\ account' = AdminBlock(account, block_reason, today)
               /\ last' = Resp("block", 200, "blocked")
    /\ trial_since' = None
    /\ UNCHANGED today
    /\ UNCHANGED side_vars

\* The write of TrainerUnblockView.post.
AdminUnblock(u) ==
    [u EXCEPT !.account_blocked = FALSE,
              !.block_reason = NONE,
              !.blocked_at = None]

TrainerUnblockView_post ==
    /\ IF ~(account.exists /\ account.user_type = "trainer")
       THEN /\ account' = account
            /\ last' = Resp("unblock", 404, "Trainer not found")
       ELSE /\ account' = AdminUnblock(account)
            /\ last' = Resp("unblock", 200, "unblocked")
    /\ trial_since' = None
    /\ UNCHANGED today
    /\ UNCHANGED side_vars

-----------------------------------------------------------------------------
(* AdminTrainerSubscriptionUpdateView.patch *)

\* The request body: a key that is absent reads as None.
UpdateRequest(subscription_status, plan_type, client_limit, extend_trial_days) ==
    [ subscription_status |-> subscription_status,
      plan_type           |-> plan_type,
      client_limit        |-> client_limit,
      extend_trial_days   |-> extend_trial_days ]

\* Python truthiness of request values.
TextTruthy(t) == t \notin {NONE, ""}

\* A variant that validates the status alone.
UpdateRefused_status_only(req) ==
    /\ TextTruthy(req.subscription_status)
    /\ req.subscription_status \notin {"trial", "active", "expired", "cancelled", "suspended"}

\* The error of a refused request: the status is validated before the plan.
RefusalError(req) ==
    IF /\ TextTruthy(req.subscription_status)
       /\ req.subscription_status \notin {"trial", "active", "expired", "cancelled", "suspended"}
    THEN "Invalid subscription status"
    ELSE "Invalid plan type"

\* The two 400 answers: a status or a plan outside the valid ones.
UpdateRefused(req) ==
    \/ /\ TextTruthy(req.subscription_status)
       /\ req.subscription_status \notin {"trial", "active", "expired", "cancelled", "suspended"}
    \/ /\ TextTruthy(req.plan_type)
       /\ req.plan_type \notin {"trial", "starter", "professional", "enterprise"}

\* A variant that counts every extension from today.
ExtendTrial_from_today(u, days, now_date) ==
    IF DateSet(u.trial_end_date)
    THEN [u EXCEPT !.trial_end_date = Some(now_date + days)]
    ELSE [u EXCEPT !.trial_start_date = Some(now_date),
                   !.trial_end_date = Some(now_date + days),
                   !.subscription_status = "trial",
                   !.plan_type = "trial"]

\* The extension branch.
ExtendTrial(u, days, now_date) ==
    IF DateSet(u.trial_end_date)
    THEN [u EXCEPT !.trial_end_date = Some(Get(u.trial_end_date) + days)]
    ELSE [u EXCEPT !.trial_start_date = Some(now_date),
                   !.trial_end_date = Some(now_date + days),
                   !.subscription_status = "trial",
                   !.plan_type = "trial"]

\* A variant that blocks the row when the request carries the status expired.
ApplyUpdate_blocks_expired(u, req, now_date) ==
    LET t1 == IF TextTruthy(req.subscription_status)
              THEN [u EXCEPT !.subscription_status = req.subscription_status] ELSE u
        t2 == IF TextTruthy(req.plan_type)
              THEN [t1 EXCEPT !.plan_type = req.plan_type] ELSE t1
        t3 == IF req.client_limit # None
              THEN [t2 EXCEPT !.client_limit = req.client_limit] ELSE t2
        t4 == IF IntTruthy(req.extend_trial_days)
              THEN ExtendTrial(t3, Get(req.extend_trial_days), now_date)
              ELSE t3
    IN IF req.subscription_status = "expired"
       THEN [t4 EXCEPT !.account_blocked = TRUE,
                       !.block_reason = BLOCK_REASON_TRIAL,
                       !.blocked_at = Some(now_date)]
       ELSE t4

\* The trainer object at the first trainer.save() of an accepted request.
ApplyUpdate(u, req, now_date) ==
    LET t1 == IF TextTruthy(req.subscription_status)
              THEN [u EXCEPT !.subscription_status = req.subscription_status] ELSE u
        t2 == IF TextTruthy(req.plan_type)
              THEN [t1 EXCEPT !.plan_type = req.plan_type] ELSE t1
        t3 == IF req.client_limit # None
              THEN [t2 EXCEPT !.client_limit = req.client_limit] ELSE t2
    IN IF IntTruthy(req.extend_trial_days)
       THEN ExtendTrial(t3, Get(req.extend_trial_days), now_date)
       ELSE t3

\* A variant that knows the status active and the extension only.
ShouldUnblock_active_or_extended(t, req, now_date) ==
    IF req.subscription_status = "active" THEN TRUE
    ELSE IF /\ IntTruthy(req.extend_trial_days)
            /\ DateSet(t.trial_end_date)
            /\ now_date <= Get(t.trial_end_date) THEN TRUE
    ELSE FALSE

\* A variant without the last branch, the recomputed should_be_auto_blocked.
ShouldUnblock_no_recompute(t, req, now_date) ==
    IF req.subscription_status = "active" THEN TRUE
    ELSE IF /\ IntTruthy(req.extend_trial_days)
            /\ DateSet(t.trial_end_date)
            /\ now_date <= Get(t.trial_end_date) THEN TRUE
    ELSE IF /\ TextTruthy(req.subscription_status)
            /\ req.subscription_status \notin {"trial", "expired"} THEN TRUE
    ELSE FALSE

\* The reconciler's decision for a blocked trainer, on the saved fields.
ShouldUnblock(t, req, now_date) ==
    IF req.subscription_status = "active" THEN TRUE
    ELSE IF /\ IntTruthy(req.extend_trial_days)
            /\ DateSet(t.trial_end_date)
            /\ now_date <= Get(t.trial_end_date) THEN TRUE
    ELSE IF /\ TextTruthy(req.subscription_status)
            /\ req.subscription_status \notin {"trial", "expired"} THEN TRUE
    ELSE ~should_be_auto_blocked(t, now_date)

\* A variant that clears the flag alone.
ReconcileUnblock_flag_only(t) ==
    [t EXCEPT !.account_blocked = FALSE]

\* The reconciler's write (update_fields: the three block fields).
ReconcileUnblock(t) ==
    [t EXCEPT !.account_blocked = FALSE,
              !.block_reason = NONE,
              !.blocked_at = None]

\* The row the whole handler leaves for an accepted request.
UpdatedTrainer(u, req, now_date) ==
    LET t == ApplyUpdate(u, req, now_date)
    IN IF t.account_blocked /\ ShouldUnblock(t, req, now_date)
       THEN ReconcileUnblock(t)
       ELSE t

DateInRange(d) == IF d = None THEN TRUE ELSE Get(d) \in 0..MaxDate

AdminTrainerSubscriptionUpdateView_patch(req) ==
    /\ IF ~(account.exists /\ account.user_type = "trainer")
       THEN /\ account' = account
            /\ last' = Resp("subscription_update", 404, "Trainer not found")
       ELSE IF UpdateRefused(req)
       THEN /\ account' = account
            /\ last' = Resp("subscription_update", 400, RefusalError(req))
       ELSE /\ DateInRange(ApplyUpdate(account, req, today).trial_end_date)
            /\ account' = UpdatedTrainer(account, req, today)
            /\ last' = Resp("subscription_update", 200, "Subscription updated successfully")
    /\ trial_since' = None
    /\ UNCHANGED today
    /\ UNCHANGED side_vars

StatusInputs == {NONE, "trial", "active", "expired", "cancelled", "suspended", "paused"}
ExtendInputs == {None, Some(0), Some(-12), Some(12)}

\* The requests of the lifecycle: every status alone, every extension alone
\* and with a trial or expired status, a plan with a limit, and a valid
\* status beside an invalid plan.
UpdateRequests ==
    { UpdateRequest(s, NONE, None, None) : s \in StatusInputs }
    \cup { UpdateRequest(s, NONE, None, e) :
               s \in {NONE, "trial", "expired"}, e \in ExtendInputs }
    \cup { UpdateRequest(NONE, "professional", Some(0), None),
           UpdateRequest("active", "gold", None, None) }

-----------------------------------------------------------------------------
(* SubscriptionUpgradeView.post *)

UpgradeLimit(plan_type) ==
    CASE plan_type = "starter"      -> 10
      [] plan_type = "professional" -> 50
      [] plan_type = "enterprise"   -> -1

\* A variant that lifts the block of the row it upgrades.
Upgraded_unblocks(u, plan_type) ==
    [u EXCEPT !.subscription_status = "active",
              !.plan_type = plan_type,
              !.client_limit = Some(UpgradeLimit(plan_type)),
              !.account_blocked = FALSE,
              !.block_reason = NONE,
              !.blocked_at = None]

\* A variant that leaves the status as it was.
Upgraded_keeps_status(u, plan_type) ==
    [u EXCEPT !.plan_type = plan_type,
              !.client_limit = Some(UpgradeLimit(plan_type))]

Upgraded(u, plan_type) ==
    [u EXCEPT !.subscription_status = "active",
              !.plan_type = plan_type,
              !.client_limit = Some(UpgradeLimit(plan_type))]

UpgradeInputs == {"trial", "enterprise"}

SubscriptionUpgradeView_post(plan_type) ==
    /\ account.exists
    /\ IF plan_type \notin {"starter", "professional", "enterprise"}
       THEN /\ account' = account
            /\ last' = Resp("upgrade", 400, "Invalid plan type")
       ELSE /\ account' = Upgraded(account, plan_type)
            /\ last' = Resp("upgrade", 200, "upgraded")
    /\ trial_since' = None
    /\ UNCHANGED today
    /\ UNCHANGED side_vars

-----------------------------------------------------------------------------
(* block_expired_trials *)

\* The queryset filter of the sweep (a NULL trial_end_date matches no __lt).
\* A variant that selects a trial on the day it ends.
SweepSelects_on_end_date(u, now_date) ==
    /\ u.exists
    /\ u.user_type = "trainer"
    /\ u.subscription_status \in {"trial", "expired"}
    /\ u.trial_end_date # None
    /\ Get(u.trial_end_date) <= now_date
    /\ ~u.account_blocked

SweepSelects(u, now_date) ==
    /\ u.exists
    /\ u.user_type = "trainer"
    /\ u.subscription_status \in {"trial", "expired"}
    /\ u.trial_end_date # None
    /\ Get(u.trial_end_date) < now_date
    /\ ~u.account_blocked

SweepBlock(u, now) ==
    [u EXCEPT !.account_blocked = TRUE,
              !.block_reason = BLOCK_REASON_TRIAL,
              !.blocked_at = Some(now)]

block_expired_trials(dry_run) ==
    /\ IF ~SweepSelects(account, today)
       THEN /\ account' = account
            /\ last' = Resp("sweep", 0, "No trainers with expired trials found")
       ELSE IF dry_run
       THEN /\ account' = account
            /\ last' = Resp("sweep", 0, "DRY RUN")
       ELSE /\ account' = SweepBlock(account, today)
            /\ last' = Resp("sweep", 0, "Successfully auto-blocked")
    /\ UNCHANGED <<today, trial_since>>
    /\ UNCHANGED side_vars

-----------------------------------------------------------------------------
(* init_trial_dates *)

\* The fields the command gives a trainer that has no trial_start_date;
\* joined is date_joined.date(), the day the row was created.
InitTrialDates(u, trial_days, joined, now_date) ==
    LET trial_start == IF joined <= now_date THEN joined ELSE now_date
        trial_end == trial_start + trial_days
    IN [u EXCEPT !.trial_start_date = Some(trial_start),
                 !.trial_end_date = Some(trial_end),
                 !.subscription_status = IF now_date > trial_end
                                         THEN "expired" ELSE "trial",
                 !.plan_type = IF TextTruthy(@) THEN @ ELSE "trial",
                 !.client_limit = IF @ = None THEN Some(5) ELSE @]

init_trial_dates(dry_run, trial_days, joined) ==
    /\ IF ~(account.exists /\ account.user_type = "trainer"
                           /\ account.trial_start_date = None)
       THEN /\ account' = account
            /\ last' = Resp("init_trial_dates", 0, "All trainers already have trial dates set")
       ELSE IF dry_run
       THEN /\ account' = account
            /\ last' = Resp("init_trial_dates", 0, "DRY RUN")
       ELSE /\ account' = InitTrialDates(account, trial_days, joined, today)
            /\ last' = Resp("init_trial_dates", 0, "Successfully initialized")
    /\ trial_since' = None
    /\ UNCHANGED today
    /\ UNCHANGED side_vars

-----------------------------------------------------------------------------
(* The clock *)

AdvanceDay(max_day) ==
    /\ today < max_day
    /\ today' = today + 1
    /\ UNCHANGED <<account, last, trial_since>>
    /\ UNCHANGED side_vars

-----------------------------------------------------------------------------
(* The lifecycle of one row *)

Init ==
    /\ today = 0
    /\ account = NoUser
    /\ last = Resp("none", 0, "none")
    /\ trial_since = None
    /\ SideInit

Checkpoint == \E path \in Paths, authenticated \in BOOLEAN : process_request(path, authenticated)
Signup == \E user_type \in USER_TYPES : SignupView_post(user_type)
MakeAdmin == \E superuser \in BOOLEAN : make_admin(superuser)
Login == \E credentials_ok \in BOOLEAN : LoginView_post(credentials_ok)
Block == \E reason_input \in BlockReasonInputs : TrainerBlockView_post(reason_input)
SubscriptionUpdate == \E req \in UpdateRequests : AdminTrainerSubscriptionUpdateView_patch(req)
Upgrade == \E plan_type \in UpgradeInputs : SubscriptionUpgradeView_post(plan_type)
Sweep == \E dry_run \in BOOLEAN : block_expired_trials(dry_run)

Next ==
    \/ Signup
    \/ TrainerCreateView_post
    \/ Checkpoint
    \/ Login
    \/ Block
    \/ TrainerUnblockView_post
    \/ SubscriptionUpdate
    \/ Upgrade
    \/ Sweep
    \/ AdvanceDay(MaxDay)

Spec == Init /\ [][Next]_vars

-----------------------------------------------------------------------------
(* An untouched trial: signup and the evaluations, with no admin action *)
(* and no upgrade, over a clock that runs past the end of the trial.    *)

NextTrial ==
    \/ Signup
    \/ Checkpoint
    \/ Login
    \/ Sweep
    \/ AdvanceDay(MaxTrialDay)

SpecTrial == Init /\ [][NextTrial]_vars

-----------------------------------------------------------------------------
(* The principals of the checkpoint: rows of every user type, superusers *)
(* included, blocked or with a lapsed trial.                             *)

PrincipalRequests ==
    { UpdateRequest(NONE, NONE, None, Some(12)),
      UpdateRequest(NONE, NONE, None, Some(-12)),
      UpdateRequest("expired", NONE, None, None) }

PrincipalUpdate == \E req \in PrincipalRequests : AdminTrainerSubscriptionUpdateView_patch(req)

NextPrincipals ==
    \/ Signup
    \/ create_superuser
    \/ MakeAdmin
    \/ PrincipalUpdate
    \/ Block
    \/ Upgrade
    \/ Checkpoint
    \/ AdvanceDay(MaxDay)

SpecPrincipals == Init /\ [][NextPrincipals]_vars

-----------------------------------------------------------------------------
(* Every operation that writes the row: the views, the checkpoint and the *)
(* management commands, on rows of every user type.                       *)

\* A row is created on one of the days 0..MaxSignupDay, and not after today.
InitTrialDatesRun ==
    \E dry_run \in BOOLEAN, joined \in 0..MaxSignupDay :
        /\ joined <= today
        /\ init_trial_dates(dry_run, TRIAL_DAYS, joined)

NextOperations ==
    \/ Signup
    \/ TrainerCreateView_post
    \/ create_superuser
    \/ MakeAdmin
    \/ InitTrialDatesRun
    \/ Checkpoint
    \/ Login
    \/ Block
    \/ TrainerUnblockView_post
    \/ PrincipalUpdate
    \/ Upgrade
    \/ Sweep
    \/ AdvanceDay(MaxDay)

SpecOperations == Init /\ [][NextOperations]_vars

-----------------------------------------------------------------------------
(* Evaluating the lifecycle properties: SubscriptionStatusView.get reads   *)
(* four of them off the row, the checkpoint reads should_be_auto_blocked.  *)
(* The rows are those the admin's update, make_admin and the admin site    *)
(* can store; the plan column does not enforce its choices, "legacy"       *)
(* stands for a value outside them.                                        *)

SubscriptionStatusView_get ==
    /\ account.exists
    /\ last' = [ op                     |-> "subscription_status",
                 code                   |-> 200,
                 is_trial_active        |-> is_trial_active(account, today),
                 is_subscription_active |-> is_subscription_active(account, today),
                 days_until_trial_end   |-> days_until_trial_end(account, today),
                 client_limit           |-> get_client_limit(account) ]
    /\ UNCHANGED <<today, account, trial_since>>
    /\ UNCHANGED side_vars

ReadShouldBeAutoBlocked ==
    /\ account.exists
    /\ last' = [ op    |-> "should_be_auto_blocked",
                 code  |-> 0,
                 value |-> should_be_auto_blocked(account, today) ]
    /\ UNCHANGED <<today, account, trial_since>>
    /\ UNCHANGED side_vars

EvalDates == {None} \cup { Some(d) : d \in 0..MaxEvalDay }
EvalLimits == {None, Some(-1), Some(0), Some(3), Some(5)}
EvalPlans == {NONE, "trial", "starter", "professional", "enterprise", "legacy"}
EvalStatuses == {NONE, "trial", "active", "expired", "cancelled", "suspended"}

EvalRows ==
    { [NewUser(t, FALSE) EXCEPT !.subscription_status = s,
                                !.plan_type = p,
                                !.trial_end_date = e,
                                !.client_limit = l] :
        t \in USER_TYPES, s \in EvalStatuses, p \in EvalPlans,
        e \in EvalDates, l \in EvalLimits }

InitEval ==
    /\ today \in 0..MaxEvalDay
    /\ account \in EvalRows
    /\ last = Resp("none", 0, "none")
    /\ trial_since = None
    /\ SideInit

NextEval ==
    \/ SubscriptionStatusView_get
    \/ ReadShouldBeAutoBlocked

SpecEval == InitEval /\ [][NextEval]_vars

-----------------------------------------------------------------------------
(* The checkpoint and the login on stored rows: every user type and status, *)
(* a trial_end_date before, on and after the day, unblocked or blocked (by  *)
(* the checkpoint, by an admin with a reason of their own, by an admin with *)
(* a null block_reason), with the limits of signup or of an admin's update. *)

CUSTOM_REASON == "Chargeback on the last invoice"

\* account_blocked, block_reason, blocked_at as the block writes leave them.
CheckBlockStates ==
    { <<FALSE, NONE, None>>,
      <<TRUE, BLOCK_REASON_TRIAL, Some(0)>>,
      <<TRUE, CUSTOM_REASON, Some(0)>>,
      <<TRUE, NONE, Some(0)>> }

CheckDates == {None} \cup { Some(d) : d \in 0..MaxCheckDate }

\* plan_type and client_limit as signup and as an admin's update leave them.
CheckPlans == { <<"trial", Some(5)>>, <<"professional", Some(0)>> }

CheckRows ==
    { [NewUser(t, FALSE) EXCEPT !.subscription_status = s,
                                !.trial_end_date = e,
                                !.plan_type = p[1],
                                !.client_limit = p[2],
                                !.account_blocked = b[1],
                                !.block_reason = b[2],
                                !.blocked_at = b[3]] :
        t \in USER_TYPES, s \in EvalStatuses, e \in CheckDates,
        p \in CheckPlans, b \in CheckBlockStates }

InitCheckpoint ==
    /\ today \in 0..MaxCheckDay
    /\ account \in CheckRows
    /\ last = Resp("none", 0, "none")
    /\ trial_since = None
    /\ SideInit

NextCheckpoint ==
    \/ Checkpoint
    \/ Login

SpecCheckpoint == InitCheckpoint /\ [][NextCheckpoint]_vars

-----------------------------------------------------------------------------
(* One subscription update of a stored row: every user type and status, a  *)
(* trial_end_date before, on and after the day, unblocked or blocked, and  *)
(* every combination of the four keys of the request body.                 *)

StoredDates == {None} \cup { Some(d) : d \in 0..MaxUpdateDate }

StoredRows ==
    { [NewUser(t, FALSE) EXCEPT !.subscription_status = s,
                                !.trial_end_date = e,
                                !.account_blocked = b[1],
                                !.block_reason = b[2],
                                !.blocked_at = b[3]] :
        t \in USER_TYPES, s \in EvalStatuses, e \in StoredDates,
        b \in CheckBlockStates }

StoredPlanInputs == {NONE, "starter", "gold"}
StoredLimitInputs == {None, Some(0)}
StoredExtendInputs == {None, Some(0), Some(-1), Some(1), Some(2)}

StoredUpdateRequests ==
    { UpdateRequest(s, p, l, e) :
        s \in StatusInputs, p \in StoredPlanInputs,
        l \in StoredLimitInputs, e \in StoredExtendInputs }

InitUpdate ==
    /\ today \in 0..MaxUpdateDay
    /\ account \in StoredRows
    /\ last = Resp("none", 0, "none")
    /\ trial_since = None
    /\ SideInit

\* The first request a stored row receives.
StoredUpdate ==
    /\ last.op = "none"
    /\ \E req \in StoredUpdateRequests : AdminTrainerSubscriptionUpdateView_patch(req)

NextUpdate == StoredUpdate

SpecUpdate == InitUpdate /\ [][NextUpdate]_vars

-----------------------------------------------------------------------------
(* The upgrade of a stored row with every plan value, a missing one      *)
(* included, and the checkpoint on the days after it.                    *)

UpgradePlanInputs == {NONE, "trial", "starter", "professional", "enterprise"}

UpgradeAny == \E plan_type \in UpgradePlanInputs : SubscriptionUpgradeView_post(plan_type)

NextUpgrade ==
    \/ UpgradeAny
    \/ Checkpoint
    \/ AdvanceDay(MaxCheckDate)

SpecUpgrade == InitCheckpoint /\ [][NextUpgrade]_vars

-----------------------------------------------------------------------------
(* The sweep and the checkpoint on the stored rows, on one day.          *)

NextSweep ==
    \/ Sweep
    \/ Checkpoint

SpecSweep == InitCheckpoint /\ [][NextSweep]_vars

-----------------------------------------------------------------------------
(* The client rows of one trainer: creation under the client limit and   *)
(* soft deletion.                                                        *)

ClientLimitInputs == {None, Some(-1), Some(0), Some(1), Some(2)}

ClientPlanInputs == {NONE, "trial", "enterprise"}

ClientRows ==
    { [InitTrial(NewUser("trainer", FALSE), 0) EXCEPT
          !.plan_type = p, !.client_limit = l] :
        p \in ClientPlanInputs, l \in ClientLimitInputs }

NewClient == [is_removed |-> FALSE]

\* Client.objects.filter(trainer=request.user, is_removed=False).count()
ActiveCount(rows) == Cardinality({i \in DOMAIN rows : ~rows[i].is_removed})

LimitReached(u, rows) ==
    /\ get_client_limit(u) # -1
    /\ ActiveCount(rows) >= get_client_limit(u)

CreateOutcomes == {"created", "payment_failed", "client_failed"}

\* POST /api/clients/ by the trainer; outcome tells whether
\* Client.objects.create or the placeholder Payment.objects.create raises.
ClientViewSet_create(outcome) ==
    /\ Len(clients) < MaxClients
    /\ IF LimitReached(account, clients)
       THEN /\ last' = Resp("create_client", 403, "Client limit reached")
            /\ UNCHANGED clients
       ELSE IF outcome = "client_failed"
       THEN /\ last' = Resp("create_client", 400, "error")
            /\ UNCHANGED clients
       ELSE /\ clients' = Append(clients, NewClient)
            /\ last' = IF outcome = "created"
                       THEN Resp("create_client", 201, "client")
                       ELSE Resp("create_client", 400, "error")
    /\ UNCHANGED <<today, account, trial_since, requests, reset_tokens, passwords, hour>>

\* DELETE /api/clients/{pk}/ by the trainer, whose queryset holds the rows
\* that are not removed.
ClientViewSet_destroy(pk) ==
    /\ IF pk \in DOMAIN clients /\ ~clients[pk].is_removed
       THEN /\ clients' = [clients EXCEPT ![pk].is_removed = TRUE]
            /\ last' = Resp("destroy_client", 200, "client removed")
       ELSE /\ last' = Resp("destroy_client", 404, "Client not found")
            /\ UNCHANGED clients
    /\ UNCHANGED <<today, account, trial_since, requests, reset_tokens, passwords, hour>>

InitClients ==
    /\ today = 0
    /\ account \in ClientRows
    /\ last = Resp("none", 0, NONE)
    /\ trial_since = None
    /\ SideInit

CreateClient == \E outcome \in CreateOutcomes : ClientViewSet_create(outcome)

DestroyClient == \E pk \in 1..MaxClients : ClientViewSet_destroy(pk)

NextClients ==
    \/ CreateClient
    \/ DestroyClient

SpecClients == InitClients /\ [][NextClients]_vars

-----------------------------------------------------------------------------
(* The password reset: PasswordResetRequestView, PasswordResetConfirmView *)
(* and the PasswordResetToken rows. A token is named by its place in     *)
(* reset_tokens.                                                         *)

TOKEN_LIFETIME == 1   \* timedelta(hours=1)

MIN_PASSWORD_LENGTH == 6

UNKNOWN_EMAIL == "nobody"

EmailInputs == RESET_USERS \cup {UNKNOWN_EMAIL}

PasswordInputs == {"abc", "secret1", "secret2"}

\* PasswordResetToken.save: expires_at is set when the row is created.
NewToken(user, now) ==
    [user |-> user, expires_at |-> now + TOKEN_LIFETIME, used |-> FALSE]

\* PasswordResetToken.is_valid
is_valid(reset_token, now) ==
    ~reset_token.used /\ now < reset_token.expires_at

\* A variant that leaves the earlier tokens as they are.
InvalidateTokens_none(tokens, user) == tokens

\* PasswordResetToken.objects.filter(user=user, used=False).update(used=True)
InvalidateTokens(tokens, user) ==
    [i \in DOMAIN tokens |->
        IF tokens[i].user = user /\ ~tokens[i].used
        THEN [tokens[i] EXCEPT !.used = TRUE]
        ELSE tokens[i]]

\* Every branch answers 200, whether or not a user has the email and
\* whether or not the mail was sent.
PasswordResetRequestView_post(email) ==
    /\ IF email \in RESET_USERS
       THEN /\ Len(reset_tokens) < MaxTokens
            /\ reset_tokens' = Append(InvalidateTokens(reset_tokens, email),
                                      NewToken(email, hour))
       ELSE UNCHANGED reset_tokens
    /\ last' = Resp("reset_request", 200, "If an account exists")
    /\ UNCHANGED <<today, account, trial_since, requests, clients, passwords, hour>>

PasswordResetConfirmView_post(token, new_password) ==
    /\ IF Len(new_password) < MIN_PASSWORD_LENGTH
       THEN /\ last' = Resp("reset_confirm", 400, "Password must be at least 6 characters")
            /\ UNCHANGED <<reset_tokens, passwords>>
       ELSE IF token \notin DOMAIN reset_tokens
       THEN /\ last' = Resp("reset_confirm", 400, "Invalid password reset token.")
            /\ UNCHANGED <<reset_tokens, passwords>>
       ELSE IF ~is_valid(reset_tokens[token], hour)
       THEN /\ last' = Resp("reset_confirm", 400, "expired or already used")
            /\ UNCHANGED <<reset_tokens, passwords>>
       ELSE /\ passwords' = [passwords EXCEPT ![reset_tokens[token].user] = new_password]
            /\ reset_tokens' = [reset_tokens EXCEPT ![token].used = TRUE]
            /\ last' = Resp("reset_confirm", 200, "Password has been reset successfully")
    /\ UNCHANGED <<today, account, trial_since, requests, clients, hour>>

\* An hour passes.
AdvanceHour ==
    /\ hour < MaxHour
    /\ hour' = hour + 1
    /\ UNCHANGED <<today, account, last, trial_since, requests, clients,
                   reset_tokens, passwords>>

InitReset ==
    /\ today = 0
    /\ account = NoUser
    /\ last = Resp("none", 0, NONE)
    /\ trial_since = None
    /\ SideInit

ResetRequest == \E email \in EmailInputs : PasswordResetRequestView_post(email)

ResetConfirm ==
    \E token \in 1..(MaxTokens + 1), new_password \in PasswordInputs :
        PasswordResetConfirmView_post(token, new_password)

NextReset ==
    \/ ResetRequest
    \/ ResetConfirm
    \/ AdvanceHour

SpecReset == InitReset /\ [][NextReset]_vars

-----------------------------------------------------------------------------
(* Two requests in flight on the row of a trainer whose trial has lapsed.  *)
(* A handler works on the object it loaded: the checkpoint and the upgrade *)
(* on request.user, the login on the user the serializer authenticated,    *)
(* the update on User.objects.get.  A save() writes every field of that    *)
(* object, a save(update_fields=...) the named fields only; the other      *)
(* request may run between the load and each write.                        *)

RACE_KINDS == {"checkpoint", "login", "update", "upgrade"}
RACE_UPDATE == UpdateRequest("active", NONE, None, None)
RACE_PLAN == "starter"

NewRequest(kind) ==
    [kind |-> kind, pc |-> "start", user |-> NoUser, code |-> 0, wrote |-> FALSE]

\* A variant that names account_blocked alone in update_fields.
SaveBlockFields_flag_only(row, user) ==
    [row EXCEPT !.account_blocked = user.account_blocked]

\* save(update_fields=['account_blocked', 'block_reason', 'blocked_at']).
SaveBlockFields(row, user) ==
    [row EXCEPT !.account_blocked = user.account_blocked,
                !.block_reason = user.block_reason,
                !.blocked_at = user.blocked_at]

\* The handler's object is loaded from the row.
LoadUser(i) ==
    /\ requests[i].pc = "start"
    /\ requests' = [requests EXCEPT ![i].user = account, ![i].pc = "loaded"]
    /\ UNCHANGED <<today, account, last, trial_since,
                   clients, reset_tokens, passwords, hour>>

\* process_request on the loaded object, for a trainer on a path that is
\* not exempt: the auto-block with its write, then the answer.
CheckpointEvaluates(i) ==
    /\ requests[i].kind = "checkpoint"
    /\ requests[i].pc = "loaded"
    /\ LET u == requests[i].user
           v == CheckpointAutoBlock(u, today)
       IN /\ account' = IF v # u THEN SaveBlockFields(account, v) ELSE account
          /\ requests' = [requests EXCEPT
                            ![i].user = v,
                            ![i].pc = "done",
                            ![i].code = CheckpointDecision(v, today).code,
                            ![i].wrote = (v # u)]
    /\ UNCHANGED <<today, last, trial_since,
                   clients, reset_tokens, passwords, hour>>

\* LoginView.post on the authenticated object.
LoginEvaluates(i) ==
    /\ requests[i].kind = "login"
    /\ requests[i].pc = "loaded"
    /\ LET u == requests[i].user
           v == LoginAutoBlock(u, today)
       IN /\ account' = IF v # u THEN SaveBlockFields(account, v) ELSE account
          /\ requests' = [requests EXCEPT
                            ![i].user = v,
                            ![i].pc = "done",
                            ![i].code = LoginDecision(v).code,
                            ![i].wrote = (v # u)]
    /\ UNCHANGED <<today, last, trial_since,
                   clients, reset_tokens, passwords, hour>>

\* AdminTrainerSubscriptionUpdateView.patch up to its trainer.save().
UpdateSaves(i) ==
    /\ requests[i].kind = "update"
    /\ requests[i].pc = "loaded"
    /\ LET t == ApplyUpdate(requests[i].user, RACE_UPDATE, today)
       IN /\ account' = t
          /\ requests' = [requests EXCEPT ![i].user = t, ![i].pc = "saved",
                                          ![i].wrote = TRUE]
    /\ UNCHANGED <<today, last, trial_since,
                   clients, reset_tokens, passwords, hour>>

\* The reconciler of the update, on the object it saved.
UpdateReconciles(i) ==
    /\ requests[i].kind = "update"
    /\ requests[i].pc = "saved"
    /\ LET t == requests[i].user
           v == IF t.account_blocked /\ ShouldUnblock(t, RACE_UPDATE, today)
                THEN ReconcileUnblock(t) ELSE t
       IN /\ account' = IF v # t THEN SaveBlockFields(account, v) ELSE account
          /\ requests' = [requests EXCEPT ![i].user = v, ![i].pc = "done",
                                          ![i].code = 200]
    /\ UNCHANGED <<today, last, trial_since,
                   clients, reset_tokens, passwords, hour>>

\* SubscriptionUpgradeView.post: user.save() writes the whole object.
UpgradeSaves(i) ==
    /\ requests[i].kind = "upgrade"
    /\ requests[i].pc = "loaded"
    /\ LET v == Upgraded(requests[i].user, RACE_PLAN)
       IN /\ account' = v
          /\ requests' = [requests EXCEPT ![i].user = v, ![i].pc = "done",
                                          ![i].code = 200, ![i].wrote = TRUE]
    /\ UNCHANGED <<today, last, trial_since,
                   clients, reset_tokens, passwords, hour>>

\* A trainer with status trial or expired whose trial_end_date has passed,
\* not blocked, with the plan and the limit of signup.
RaceRows(now_date) ==
    { [InitTrial(NewUser("trainer", FALSE), 0) EXCEPT
          !.subscription_status = s, !.trial_end_date = Some(e)] :
        s \in {"trial", "expired"}, e \in 0..(now_date - 1) }

InitRace ==
    /\ today \in 1..MaxRaceDay
    /\ account \in RaceRows(today)
    /\ last = Resp("none", 0, "none")
    /\ trial_since = None
    /\ requests \in [1..2 -> { NewRequest(kind) : kind \in RACE_KINDS }]
    /\ clients = <<>>
    /\ reset_tokens = <<>>
    /\ passwords = [u \in RESET_USERS |-> INITIAL_PASSWORD]
    /\ hour = 0

Load == \E i \in DOMAIN requests : LoadUser(i)
RacingCheckpoint == \E i \in DOMAIN requests : CheckpointEvaluates(i)
RacingLogin == \E i \in DOMAIN requests : LoginEvaluates(i)
RacingUpdateSave == \E i \in DOMAIN requests : UpdateSaves(i)
RacingUpdateReconcile == \E i \in DOMAIN requests : UpdateReconciles(i)
RacingUpgrade == \E i \in DOMAIN requests : UpgradeSaves(i)

NextRace ==
    \/ Load
    \/ RacingCheckpoint
    \/ RacingLogin
    \/ RacingUpdateSave
    \/ RacingUpdateReconcile
    \/ RacingUpgrade

SpecRace == InitRace /\ [][NextRace]_vars

-----------------------------------------------------------------------------
(* Properties *)

ExemptStatuses == {"active", "cancelled", "suspended"}

\* C1: for a trainer whose subscription_status is active, cancelled or
\* suspended, should_be_auto_blocked is false whatever trial_end_date and
\* the date are, and no checkpoint evaluation and no login turns
\* account_blocked from false to true.
C1_ExemptStatusNeverAutoBlocked ==
    [][ ( /\ account.exists
          /\ account.user_type = "trainer"
          /\ account.subscription_status \in ExemptStatuses )
        => /\ ~should_be_auto_blocked(account, today)
           /\ ( (last'.op \in {"checkpoint", "login"} /\ ~account.account_blocked)
                => ~account'.account_blocked ) ]_vars

\* C1 witness: the checkpoint has answered 402 to an unblocked trainer whose
\* status is cancelled and whose trial_end_date is in the past.
C1_Witness ==
    /\ account.exists
    /\ account.user_type = "trainer"
    /\ account.subscription_status = "cancelled"
    /\ account.trial_end_date # None
    /\ Get(account.trial_end_date) < today
    /\ ~account.account_blocked
    /\ last.op = "checkpoint"
    /\ last.code = 402

\* C2: in every state the lifecycle reaches, account_blocked implies a
\* blocked_at that is set.
C2_BlockedHasBlockedAt ==
    (account.exists /\ account.account_blocked) => account.blocked_at # None

\* C2 witness: the checkpoint has auto-blocked the trainer and answered 403.
C2_Witness ==
    /\ account.exists
    /\ account.account_blocked
    /\ account.block_reason = BLOCK_REASON_TRIAL
    /\ account.blocked_at = Some(today)
    /\ last.op = "checkpoint"
    /\ last.code = 403

\* C3: in every state the lifecycle reaches from a fresh row, an account
\* that is not blocked has neither a block_reason nor a blocked_at.
C3_UnblockedIsClean ==
    (account.exists /\ ~account.account_blocked)
        => (account.block_reason = NONE /\ account.blocked_at = None)

\* C3 witness: a subscription update has left unblocked a trainer whom the
\* sweep or the checkpoint would not block again: status active, trial_end_date
\* in the past.
C3_Witness ==
    /\ account.exists
    /\ account.user_type = "trainer"
    /\ ~account.account_blocked
    /\ account.subscription_status = "active"
    /\ account.trial_end_date # None
    /\ Get(account.trial_end_date) < today
    /\ last.op = "subscription_update"
    /\ last.code = 200

\* C4: should_be_auto_blocked is true exactly when the row is a trainer's,
\* its status is trial or expired, trial_end_date is set and the date is
\* after it; on trial_end_date itself and without a trial_end_date it is false.
C4_ShouldAutoBlockIff ==
    last.op = "should_be_auto_blocked"
        => ( last.value <=> ( /\ account.user_type = "trainer"
                              /\ account.subscription_status \in {"trial", "expired"}
                              /\ account.trial_end_date # None
                              /\ today > Get(account.trial_end_date) ) )

\* C4 witness: evaluated on the end date of a trainer on trial, answer FALSE.
C4_Witness ==
    /\ last.op = "should_be_auto_blocked"
    /\ account.user_type = "trainer"
    /\ account.subscription_status = "trial"
    /\ account.trial_end_date = Some(today)
    /\ last.value = FALSE

\* C5: is_subscription_active is true exactly when the status is active, or
\* the status is trial with a trial_end_date that is set and not before the date.
C5_SubscriptionActiveIff ==
    last.op = "subscription_status"
        => ( last.is_subscription_active
               <=> ( \/ account.subscription_status = "active"
                     \/ /\ account.subscription_status = "trial"
                        /\ account.trial_end_date # None
                        /\ today <= Get(account.trial_end_date) ) )

\* C5 witness: read for a trial whose end date has lapsed, answer FALSE.
C5_Witness ==
    /\ last.op = "subscription_status"
    /\ account.subscription_status = "trial"
    /\ account.trial_end_date # None
    /\ Get(account.trial_end_date) < today
    /\ last.is_subscription_active = FALSE

\* C6: is_trial_active is true exactly when the status is trial and
\* trial_end_date is set and not before the date.
C6_TrialActiveIff ==
    last.op = "subscription_status"
        => ( last.is_trial_active
               <=> ( /\ account.subscription_status = "trial"
                     /\ account.trial_end_date # None
                     /\ today <= Get(account.trial_end_date) ) )

\* C6 witness: read on the end date of a trial, answer TRUE.
C6_Witness ==
    /\ last.op = "subscription_status"
    /\ account.subscription_status = "trial"
    /\ account.trial_end_date = Some(today)
    /\ last.is_trial_active = TRUE

\* C7: days_until_trial_end is None without a trial_end_date and otherwise
\* the number of days from the date to trial_end_date, 0 once it has passed;
\* it is never negative.
C7_DaysUntilTrialEnd ==
    last.op = "subscription_status"
        => IF account.trial_end_date = None
           THEN last.days_until_trial_end = None
           ELSE /\ last.days_until_trial_end # None
                /\ Get(last.days_until_trial_end) >= 0
                /\ Get(last.days_until_trial_end) =
                      ( IF Get(account.trial_end_date) > today
                        THEN Get(account.trial_end_date) - today
                        ELSE 0 )

\* C7 witness: read after trial_end_date, answer 0.
C7_Witness ==
    /\ last.op = "subscription_status"
    /\ account.trial_end_date # None
    /\ Get(account.trial_end_date) < today
    /\ last.days_until_trial_end = Some(0)

\* The plan defaults as the data model states them.
C8_PlanDefault(plan_type) ==
    IF plan_type = "trial" THEN 5
    ELSE IF plan_type = "starter" THEN 10
    ELSE IF plan_type = "professional" THEN 50
    ELSE IF plan_type = "enterprise" THEN -1
    ELSE 5

\* C8: the resolved client limit is client_limit whenever client_limit is
\* not None (0 and -1 included), and otherwise the default of the plan.
C8_ExplicitLimitWins ==
    last.op = "subscription_status"
        => last.client_limit =
              ( IF account.client_limit # None
                THEN Get(account.client_limit)
                ELSE C8_PlanDefault(account.plan_type) )

\* C9: a trainer who signed up on day d, untouched by an admin and not
\* upgraded, has trial_start_date d, trial_end_date d+14, status and plan
\* trial and client_limit 5; from d to d+14 the trial and the subscription
\* are active and should_be_auto_blocked is false, from d+15 on the trial
\* and the subscription are not active and should_be_auto_blocked is true.
C9_FourteenDayTrial ==
    trial_since # None
        => LET d == Get(trial_since)
           IN /\ account.exists
              /\ account.user_type = "trainer"
              /\ account.trial_start_date = Some(d)
              /\ account.trial_end_date = Some(d + 14)
              /\ account.subscription_status = "trial"
              /\ account.plan_type = "trial"
              /\ account.client_limit = Some(5)
              /\ (d <= today /\ today <= d + 14)
                    => /\ is_trial_active(account, today)
                       /\ is_subscription_active(account, today)
                       /\ ~should_be_auto_blocked(account, today)
              /\ (today >= d + 15)
                    => /\ ~is_trial_active(account, today)
                       /\ ~is_subscription_active(account, today)
                       /\ should_be_auto_blocked(account, today)

\* C9 witness: on day d+15 the checkpoint has blocked the trainer.
C9_Witness ==
    /\ trial_since # None
    /\ today = Get(trial_since) + 15
    /\ account.account_blocked
    /\ last.op = "checkpoint"
    /\ last.code = 403

\* C10: a checkpoint evaluation on an exempt path, of an unauthenticated
\* request, or of a superuser, an admin or any other non-trainer, passes the
\* request on and changes no field of the row.
C10_PassThroughFrame ==
    [][ \A path \in Paths, authenticated \in BOOLEAN :
          ( /\ last'.op = "checkpoint"
            /\ process_request(path, authenticated)
            /\ ( \/ IsExemptPath(path)
                 \/ ~authenticated
                 \/ account.is_superuser
                 \/ account.user_type # "trainer" ) )
          => ( /\ account' = account
               /\ last'.code = 0
               /\ last'.body = "pass"
               /\ last'.warn = None ) ]_vars

\* C10 witness: the checkpoint has passed on a request of a superuser whose
\* row is a blocked trainer's with a lapsed trial.
C10_Witness ==
    /\ account.exists
    /\ account.is_superuser
    /\ account.user_type = "trainer"
    /\ account.account_blocked
    /\ should_be_auto_blocked(account, today)
    /\ last.op = "checkpoint"
    /\ last.code = 0

\* A checkpoint evaluation of an authenticated trainer (no superuser) on a
\* path that is not exempt.
TrainerRequest(path, authenticated) ==
    /\ last'.op = "checkpoint"
    /\ process_request(path, authenticated)
    /\ ~IsExemptPath(path)
    /\ authenticated
    /\ account.user_type = "trainer"
    /\ ~account.is_superuser

\* The subscription is active: status active, or status trial with a
\* trial_end_date that is set and not before the day.
SubscriptionActiveOn(u, day) ==
    \/ u.subscription_status = "active"
    \/ /\ u.subscription_status = "trial"
       /\ u.trial_end_date # None
       /\ day <= Get(u.trial_end_date)

\* C11: a checkpoint evaluation of a trainer's request on a path that is not
\* exempt, with should_be_auto_blocked true and account_blocked false, sets
\* account_blocked, the canned trial-expired block_reason and blocked_at = now
\* and leaves every other field of the row as it was.
C11_AutoBlockFrame ==
    [][ \A path \in Paths, authenticated \in BOOLEAN :
          ( /\ TrainerRequest(path, authenticated)
            /\ account.subscription_status \in {"trial", "expired"}
            /\ account.trial_end_date # None
            /\ today > Get(account.trial_end_date)
            /\ ~account.account_blocked )
          => account' = [account EXCEPT !.account_blocked = TRUE,
                                        !.block_reason = BLOCK_REASON_TRIAL,
                                        !.blocked_at = Some(today)] ]_vars

\* C11 witness: the checkpoint has blocked, after day 0, a trainer whose
\* status is expired, whose plan is professional and whose client_limit is 0.
C11_Witness ==
    /\ account.user_type = "trainer"
    /\ account.account_blocked
    /\ account.block_reason = BLOCK_REASON_TRIAL
    /\ today > 0
    /\ account.blocked_at = Some(today)
    /\ account.subscription_status = "expired"
    /\ account.plan_type = "professional"
    /\ account.client_limit = Some(0)
    /\ last.op = "checkpoint"
    /\ last.code = 403

\* C12: when the row of a trainer's request on a path that is not exempt is
\* blocked after the auto-block step, the checkpoint answers 403 'Account
\* blocked' with the block_reason as message (the default message when the
\* row has none), whatever the subscription is; it never answers 402 then.
C12_BlockedRejectedFirst ==
    [][ \A path \in Paths, authenticated \in BOOLEAN :
          ( TrainerRequest(path, authenticated) /\ account'.account_blocked )
          => ( /\ last'.code = 403
               /\ last'.body = "Account blocked"
               /\ last'.message = IF account'.block_reason \in {NONE, ""}
                                  THEN BLOCK_MESSAGE_DEFAULT
                                  ELSE account'.block_reason ) ]_vars

\* C12 witness: a trainer with status active, blocked by an admin with a
\* reason of their own, has been answered 403 with that reason.
C12_Witness ==
    /\ account.user_type = "trainer"
    /\ account.account_blocked
    /\ account.subscription_status = "active"
    /\ account.block_reason = CUSTOM_REASON
    /\ last.op = "checkpoint"
    /\ last.code = 403
    /\ last.message = CUSTOM_REASON

\* C13 as claimed: for a trainer's request on a path that is not exempt, the
\* row not blocked, the checkpoint answers 402 whenever the subscription is
\* not active, for every subscription_status, None included, and lets the
\* request through only when the subscription is active.
C13_RejectsWheneverInactive ==
    [][ \A path \in Paths, authenticated \in BOOLEAN :
          ( TrainerRequest(path, authenticated) /\ ~account'.account_blocked )
          => IF SubscriptionActiveOn(account, today)
             THEN last'.code = 0
             ELSE last'.code = 402 /\ last'.body = "Subscription expired" ]_vars

\* C13 as amended: the same for every subscription_status that is set; a row
\* whose subscription_status is None is let through.
C13_RejectsInactiveUnlessNoStatus ==
    [][ \A path \in Paths, authenticated \in BOOLEAN :
          ( TrainerRequest(path, authenticated) /\ ~account'.account_blocked )
          => IF account.subscription_status = NONE
             THEN last'.code = 0 /\ last'.warn = None
             ELSE IF SubscriptionActiveOn(account, today)
             THEN last'.code = 0
             ELSE last'.code = 402 /\ last'.body = "Subscription expired" ]_vars

\* C13 witness: an unblocked trainer whose status is suspended has been
\* answered 402.
C13_Witness ==
    /\ account.user_type = "trainer"
    /\ ~account.account_blocked
    /\ account.subscription_status = "suspended"
    /\ last.op = "checkpoint"
    /\ last.code = 402

\* C14: for an unblocked trainer with an active subscription on a path that
\* is not exempt, the checkpoint lets the request through, with the warning
\* carrying the days to trial_end_date exactly when the status is trial and
\* those days are at most 3 (2 days: warning 2; 3 days: warning 3; 4 days:
\* none); a status active never gets a warning.
C14_TrialWarning ==
    [][ \A path \in Paths, authenticated \in BOOLEAN :
          ( /\ TrainerRequest(path, authenticated)
            /\ ~account.account_blocked
            /\ SubscriptionActiveOn(account, today) )
          => ( /\ account' = account
               /\ last'.code = 0
               /\ last'.warn =
                    IF /\ account.subscription_status = "trial"
                       /\ Get(account.trial_end_date) - today <= 3
                    THEN Some(Get(account.trial_end_date) - today)
                    ELSE None ) ]_vars

\* C14 witness: a trial that ends in 3 days has been let through with the
\* warning 3.
C14_Witness ==
    /\ account.user_type = "trainer"
    /\ ~account.account_blocked
    /\ account.subscription_status = "trial"
    /\ account.trial_end_date = Some(today + 3)
    /\ last.op = "checkpoint"
    /\ last.code = 0
    /\ last.warn = Some(3)

\* C15: a checkpoint evaluation or a login on a row that is already blocked
\* changes no field of it, whoever blocked it and whatever
\* should_be_auto_blocked says; so a second evaluation of an expired trainer
\* leaves the row the first one left.
C15_BlockedRowUntouched ==
    [][ ( /\ last'.op \in {"checkpoint", "login"}
          /\ account.exists
          /\ account.account_blocked )
        => account' = account ]_vars

\* C15 witness: a trainer with a lapsed trial, blocked on day 0 by an admin
\* with a reason of their own, has been answered 403 on a later day and
\* keeps that reason and that blocked_at.
C15_Witness ==
    /\ account.user_type = "trainer"
    /\ account.account_blocked
    /\ should_be_auto_blocked(account, today)
    /\ account.block_reason = CUSTOM_REASON
    /\ account.blocked_at = Some(0)
    /\ today > 0
    /\ last.op = "checkpoint"
    /\ last.code = 403

\* An accepted subscription update of a blocked trainer.
BlockedTrainerUpdated ==
    /\ last'.op = "subscription_update"
    /\ last'.code = 200
    /\ account.account_blocked

\* C16: an accepted subscription update of a blocked trainer whose request
\* carries the status active, cancelled or suspended leaves the row with
\* account_blocked false and no block_reason and no blocked_at, whatever
\* the trial dates are and whatever else the request carries.
C16_ExemptStatusUnblocks ==
    [][ BlockedTrainerUpdated
        => \A req \in StoredUpdateRequests :
             ( /\ req.subscription_status \in ExemptStatuses
               /\ AdminTrainerSubscriptionUpdateView_patch(req) )
             => ( /\ ~account'.account_blocked
                  /\ account'.block_reason = NONE
                  /\ account'.blocked_at = None ) ]_vars

\* C16 witness: an update has left unblocked, with status cancelled, a
\* trainer whose trial_end_date is in the past.
C16_Witness ==
    /\ account.user_type = "trainer"
    /\ ~account.account_blocked
    /\ account.block_reason = NONE
    /\ account.subscription_status = "cancelled"
    /\ account.trial_end_date # None
    /\ Get(account.trial_end_date) < today
    /\ last.op = "subscription_update"
    /\ last.code = 200

\* C17: an accepted update of a blocked trainer that extends the trial by n
\* days (n not 0) moves trial_end_date to the old trial_end_date + n, or to
\* today + n when there was none, and leaves the row unblocked, with no
\* block_reason and no blocked_at, whenever the new trial_end_date is today
\* or later.
C17_ExtensionUnblocks ==
    [][ BlockedTrainerUpdated
        => \A req \in StoredUpdateRequests :
             ( /\ req.extend_trial_days # None
               /\ Get(req.extend_trial_days) # 0
               /\ AdminTrainerSubscriptionUpdateView_patch(req) )
             => LET n == Get(req.extend_trial_days)
                    new_end == IF account.trial_end_date # None
                               THEN Get(account.trial_end_date) + n
                               ELSE today + n
                IN /\ account'.trial_end_date = Some(new_end)
                   /\ (new_end >= today)
                        => ( /\ ~account'.account_blocked
                             /\ account'.block_reason = NONE
                             /\ account'.blocked_at = None ) ]_vars

\* C17 witness: an extension has brought the trial_end_date of a trainer
\* with status expired to today itself, and the row is unblocked.
C17_Witness ==
    /\ account.user_type = "trainer"
    /\ account.subscription_status = "expired"
    /\ account.trial_end_date = Some(today)
    /\ ~account.account_blocked
    /\ account.blocked_at = None
    /\ last.op = "subscription_update"
    /\ last.code = 200

\* C18: after an accepted update of a blocked trainer whose request carries
\* no status outside trial and expired and no extension that brings
\* trial_end_date to today or later, the row is unblocked (no block_reason,
\* no blocked_at) exactly when should_be_auto_blocked is false on the
\* updated fields, whoever blocked it, and otherwise it is still blocked,
\* with the block_reason and the blocked_at it had.
C18_RecomputedAutoBlockDecides ==
    [][ BlockedTrainerUpdated
        => \A req \in StoredUpdateRequests :
             ( /\ req.subscription_status \notin ExemptStatuses
               /\ ~( /\ req.extend_trial_days # None
                     /\ Get(req.extend_trial_days) # 0
                     /\ account'.trial_end_date # None
                     /\ Get(account'.trial_end_date) >= today )
               /\ AdminTrainerSubscriptionUpdateView_patch(req) )
             => IF /\ account'.subscription_status \in {"trial", "expired"}
                   /\ account'.trial_end_date # None
                   /\ today > Get(account'.trial_end_date)
                THEN /\ account'.account_blocked
                     /\ account'.block_reason = account.block_reason
                     /\ account'.blocked_at = account.blocked_at
                ELSE /\ ~account'.account_blocked
                     /\ account'.block_reason = NONE
                     /\ account'.blocked_at = None ]_vars

\* C18 witness: an update that set client_limit has left blocked, with the
\* admin's own reason, a trainer whose trial has lapsed.
C18_Witness ==
    /\ account.user_type = "trainer"
    /\ account.account_blocked
    /\ account.block_reason = CUSTOM_REASON
    /\ account.blocked_at = Some(0)
    /\ should_be_auto_blocked(account, today)
    /\ account.client_limit = Some(0)
    /\ last.op = "subscription_update"
    /\ last.code = 200

\* C19: account_blocked goes from true to false only in the admin's unblock
\* and in an admin's subscription update; no checkpoint evaluation, login,
\* upgrade, sweep or other command lifts a block, so a blocked trainer who
\* upgrades is still blocked.
C19_OnlyAdminUnblocks ==
    [][ ( /\ account.exists
          /\ account.account_blocked
          /\ ~account'.account_blocked )
        => last'.op \in {"unblock", "subscription_update"} ]_vars

\* C19 witness: a blocked trainer has upgraded to a paid plan and is still
\* blocked.
C19_Witness ==
    /\ account.exists
    /\ account.user_type = "trainer"
    /\ account.account_blocked
    /\ account.subscription_status = "active"
    /\ account.plan_type = "enterprise"
    /\ last.op = "upgrade"
    /\ last.code = 200

\* C20 as claimed: account_blocked goes from false to true only in a
\* checkpoint evaluation and in the admin's block.
C20_OnlyCheckpointOrAdminBlocks ==
    [][ ( /\ account.exists
          /\ ~account.account_blocked
          /\ account'.account_blocked )
        => last'.op \in {"checkpoint", "block"} ]_vars

\* C20 as amended: account_blocked goes from false to true only in a
\* checkpoint evaluation, in a login, in the admin's block and in the
\* block_expired_trials command; no subscription update, upgrade, signup,
\* trainer creation, make_admin or init_trial_dates sets it.
C20_OnlyEvaluationsOrAdminBlock ==
    [][ ( /\ account.exists
          /\ ~account.account_blocked
          /\ account'.account_blocked )
        => last'.op \in {"checkpoint", "login", "block", "sweep"} ]_vars

\* C20 witness: a login has answered 403 to a trainer blocked that day with
\* the canned reason.
C20_Witness ==
    /\ account.exists
    /\ account.user_type = "trainer"
    /\ account.account_blocked
    /\ account.block_reason = BLOCK_REASON_TRIAL
    /\ account.blocked_at = Some(today)
    /\ last.op = "login"
    /\ last.code = 403

\* Every request in flight has answered.
AllDone == \A i \in DOMAIN requests : requests[i].pc = "done"

\* Both requests in flight are checkpoint evaluations.
TwoCheckpoints == \A i \in DOMAIN requests : requests[i].kind = "checkpoint"

\* C21: when two checkpoint evaluations of the same trainer with a lapsed
\* trial race, each on the object it loaded, every interleaving ends with
\* account_blocked true, the canned block_reason and a blocked_at that is
\* set, and no step changes any other field of the row.
C21_RacingCheckpointsAgree ==
    /\ []( (TwoCheckpoints /\ AllDone)
             => ( /\ account.account_blocked
                  /\ account.block_reason = BLOCK_REASON_TRIAL
                  /\ account.blocked_at # None ) )
    /\ [][ TwoCheckpoints
             => account' = [account EXCEPT
                              !.account_blocked = account'.account_blocked,
                              !.block_reason = account'.block_reason,
                              !.blocked_at = account'.blocked_at] ]_vars

\* C21 witness: both evaluations loaded the unblocked row, both wrote the
\* block and both answered 403.
C21_Witness ==
    /\ TwoCheckpoints
    /\ AllDone
    /\ \A i \in DOMAIN requests : requests[i].wrote /\ requests[i].code = 403
    /\ account.account_blocked

\* C26: when a checkpoint evaluation or a login of a trainer with a lapsed
\* trial runs beside a subscription update or an upgrade that sets the
\* status active, no interleaving ends with the row active, blocked and
\* carrying the canned trial-expired block_reason.
C26_NeverActiveAndAutoBlocked ==
    ( /\ AllDone
      /\ \E i, j \in DOMAIN requests :
            /\ requests[i].kind \in {"checkpoint", "login"}
            /\ requests[j].kind \in {"update", "upgrade"} )
    => ~( /\ account.subscription_status = "active"
          /\ account.account_blocked
          /\ account.block_reason = BLOCK_REASON_TRIAL )

\* C22: an upgrade to starter, professional or enterprise sets the status
\* active, the plan and the client_limit 10, 50 or -1 and nothing else; any
\* other plan value is answered 400 and changes no field; after an upgrade
\* is_subscription_active is true on every later day, and the checkpoint
\* lets the upgraded trainer through, unless the row is blocked.
C22_UpgradeAdmits ==
    /\ [][ \A plan_type \in UpgradePlanInputs :
             ( last'.op = "upgrade" /\ SubscriptionUpgradeView_post(plan_type) )
             => IF plan_type \in {"starter", "professional", "enterprise"}
                THEN /\ last'.code = 200
                     /\ account' =
                          [account EXCEPT
                             !.subscription_status = "active",
                             !.plan_type = plan_type,
                             !.client_limit =
                                 IF plan_type = "starter" THEN Some(10)
                                 ELSE IF plan_type = "professional" THEN Some(50)
                                 ELSE Some(-1)]
                ELSE /\ last'.code = 400
                     /\ account' = account ]_vars
    /\ []( (last.op = "upgrade" /\ last.code = 200)
             => is_subscription_active(account, today) )
    /\ [][ ( /\ last.op = "upgrade"
             /\ last.code = 200
             /\ ~account.account_blocked )
           => \A path \in Paths, authenticated \in BOOLEAN :
                TrainerRequest(path, authenticated)
                => (last'.code = 0 /\ account' = account) ]_vars

\* C22 witness: the checkpoint has let through, after the end of the trial,
\* a trainer who upgraded to professional.
C22_Witness ==
    /\ account.user_type = "trainer"
    /\ ~account.account_blocked
    /\ account.subscription_status = "active"
    /\ account.plan_type = "professional"
    /\ account.client_limit = Some(50)
    /\ account.trial_end_date # None
    /\ Get(account.trial_end_date) < today
    /\ last.op = "checkpoint"
    /\ last.code = 0

\* The limit the specification resolves: the explicit client_limit when it is
\* set, the default of the plan when it is null.
C23_ResolvedLimit ==
    IF account.client_limit # None THEN Get(account.client_limit)
    ELSE C8_PlanDefault(account.plan_type)

\* C23: a client creation is refused with 'Client limit reached' exactly when
\* the resolved limit is not -1 and the trainer already has that many clients
\* that are not removed; so with a limit L >= 0 the number of clients that are
\* not removed never exceeds L.
C23_LimitBoundsClients ==
    /\ [][ last'.op = "create_client"
           => ( (last'.code = 403 /\ last'.body = "Client limit reached")
                <=> ( /\ C23_ResolvedLimit # -1
                      /\ ActiveCount(clients) >= C23_ResolvedLimit ) ) ]_vars
    /\ []( C23_ResolvedLimit >= 0 => ActiveCount(clients) <= C23_ResolvedLimit )

\* A trainer with status trial or expired whose trial_end_date has passed.
C24_Lapsed ==
    /\ account.user_type = "trainer"
    /\ account.subscription_status \in {"trial", "expired"}
    /\ IF account.trial_end_date = None THEN FALSE
       ELSE Get(account.trial_end_date) < today

\* C24: a trainer with status trial or expired whose trial_end_date has
\* passed and who is not blocked is blocked, with the canned reason, by the
\* next evaluation of one of their requests on a path that is not exempt and
\* by their next login with valid credentials, and both answer 403; the
\* checkpoint never answers 402 when should_be_auto_blocked is true.
C24_LapsedTrialIsBlockedNext ==
    /\ [][ \A path \in Paths, authenticated \in BOOLEAN :
             ( /\ C24_Lapsed
               /\ ~account.account_blocked
               /\ TrainerRequest(path, authenticated) )
             => ( /\ last'.code = 403
                  /\ account'.account_blocked
                  /\ account'.block_reason = BLOCK_REASON_TRIAL ) ]_vars
    /\ [][ ( /\ C24_Lapsed
             /\ ~account.account_blocked
             /\ last'.op = "login"
             /\ LoginView_post(TRUE) )
           => ( /\ last'.code = 403
                /\ account'.account_blocked
                /\ account'.block_reason = BLOCK_REASON_TRIAL ) ]_vars
    /\ [][ \A path \in Paths, authenticated \in BOOLEAN :
             ( /\ last'.op = "checkpoint"
               /\ should_be_auto_blocked(account, today)
               /\ process_request(path, authenticated) )
             => last'.code # 402 ]_vars

\* C24 witness: a login has blocked, on that day, a trainer with status
\* expired whose trial had ended, and has answered 403.
C24_Witness ==
    /\ C24_Lapsed
    /\ account.subscription_status = "expired"
    /\ account.account_blocked
    /\ account.block_reason = BLOCK_REASON_TRIAL
    /\ today > 0
    /\ account.blocked_at = Some(today)
    /\ last.op = "login"
    /\ last.code = 403

\* C25: a login with valid credentials by a trainer who is blocked or due
\* for the auto-block is answered 403 without a token, and the row is then
\* blocked (with the canned reason when the login blocked it); every other
\* login with valid credentials, that of a trainer whose subscription is
\* not active and that of a blocked user who is not a trainer included, is
\* answered 200 with a token and changes no subscription or block field.
C25_LoginOutcome ==
    [][ ( last'.op = "login" /\ LoginView_post(TRUE) )
        => IF /\ account.user_type = "trainer"
              /\ ( account.account_blocked \/ should_be_auto_blocked(account, today) )
           THEN /\ last'.code = 403
                /\ ~last'.token
                /\ account'.account_blocked
                /\ ~account.account_blocked
                     => account'.block_reason = BLOCK_REASON_TRIAL
           ELSE /\ last'.code = 200
                /\ last'.token
                /\ account' = account ]_vars

\* C25 witness: a trainer who is not blocked and whose subscription is not
\* active (status cancelled, trial ended) has been given a token.
C25_Witness ==
    /\ account.user_type = "trainer"
    /\ ~account.account_blocked
    /\ account.subscription_status = "cancelled"
    /\ account.trial_end_date # None
    /\ Get(account.trial_end_date) < today
    /\ ~is_subscription_active(account, today)
    /\ last.op = "login"
    /\ last.code = 200
    /\ last.token

\* C27: whenever an admin's subscription update unblocks a trainer,
\* should_be_auto_blocked is false on the row the update has stored, so that
\* an evaluation on the same day does not block the row again.
C27_UnblockedIsNotDue ==
    [][ ( BlockedTrainerUpdated /\ ~account'.account_blocked )
        => ~should_be_auto_blocked(account', today) ]_vars

\* The requests the handler has to refuse for a trainer: a status outside
\* the five valid ones or a plan outside the four valid ones.
C28_Invalid(req) ==
    \/ req.subscription_status \notin
         {NONE, "", "trial", "active", "expired", "cancelled", "suspended"}
    \/ req.plan_type \notin
         {NONE, "", "trial", "starter", "professional", "enterprise"}

\* C28: an admin's subscription update for a row that is not a trainer, or
\* with a status outside the five valid ones, or with a plan outside the
\* four valid ones (a valid status beside it included), is never accepted,
\* and an update that is not accepted is answered 404 or 400 and leaves
\* every field of the row as it was; a blocked row stays blocked.
C28_RefusedUpdateChangesNothing ==
    /\ [][ ( last'.op = "subscription_update" /\ last'.code # 200 )
           => ( /\ account' = account
                /\ last'.code = IF account.user_type # "trainer"
                                THEN 404 ELSE 400 ) ]_vars
    /\ [][ ( last'.op = "subscription_update" /\ last'.code = 200 )
           => ( /\ account.user_type = "trainer"
                /\ \A req \in StoredUpdateRequests :
                     C28_Invalid(req)
                     => ~AdminTrainerSubscriptionUpdateView_patch(req) ) ]_vars

\* C28 witness: the update of a blocked trainer whose trial has lapsed has
\* been refused for its plan alone, and the row is still blocked.
C28_Witness ==
    /\ account.user_type = "trainer"
    /\ account.account_blocked
    /\ account.block_reason = BLOCK_REASON_TRIAL
    /\ account.subscription_status = "trial"
    /\ should_be_auto_blocked(account, today)
    /\ last.op = "subscription_update"
    /\ last.code = 400
    /\ last.body = "Invalid plan type"

\* C29: the sweep blocks the row exactly when should_be_auto_blocked is true
\* and the row is not blocked, with the three field values the checkpoint's
\* auto-block writes, and changes no other field and no other row; a dry run
\* changes nothing; a sweep after a sweep of the same day changes nothing.
C29_SweepBlocksTheDue ==
    /\ [][ \A dry_run \in BOOLEAN :
             ( last'.op = "sweep" /\ block_expired_trials(dry_run) )
             => IF /\ ~dry_run
                   /\ should_be_auto_blocked(account, today)
                   /\ ~account.account_blocked
                THEN /\ account' = [account EXCEPT
                                      !.account_blocked = TRUE,
                                      !.block_reason = BLOCK_REASON_TRIAL,
                                      !.blocked_at = Some(today)]
                     /\ account' = CheckpointAutoBlock(account, today)
                ELSE account' = account ]_vars
    /\ [][ ( /\ last.op = "sweep"
             /\ last.body # "DRY RUN"
             /\ last'.op = "sweep" )
           => account' = account ]_vars

\* C29 witness: the sweep has blocked, on that day, a trainer with status
\* expired whose trial had ended.
C29_Witness ==
    /\ account.user_type = "trainer"
    /\ account.subscription_status = "expired"
    /\ account.account_blocked
    /\ account.block_reason = BLOCK_REASON_TRIAL
    /\ today > 0
    /\ account.blocked_at = Some(today)
    /\ last.op = "sweep"
    /\ last.body = "Successfully auto-blocked"

\* The tokens of a user that are neither used nor expired.
C30_ValidTokens(user) ==
    { i \in DOMAIN reset_tokens :
        /\ reset_tokens[i].user = user
        /\ ~reset_tokens[i].used
        /\ hour < reset_tokens[i].expires_at }

\* C30: a confirmation succeeds only with a token that is neither used nor
\* expired, sets the password of the token's user and marks the token used;
\* a reset request for a user leaves every earlier token of that user used;
\* a used token never becomes unused and a password changes in a successful
\* confirmation only; so a user has at most one valid token at any time and
\* no token is accepted twice.
C30_TokenUsedOnce ==
    /\ [][ \A token \in 1..(MaxTokens + 1), new_password \in PasswordInputs :
             ( /\ last'.op = "reset_confirm"
               /\ last'.code = 200
               /\ PasswordResetConfirmView_post(token, new_password) )
             => ( /\ token \in DOMAIN reset_tokens
                  /\ ~reset_tokens[token].used
                  /\ hour < reset_tokens[token].expires_at
                  /\ reset_tokens'[token].used
                  /\ passwords'[reset_tokens[token].user] = new_password ) ]_vars
    /\ [][ \A email \in RESET_USERS :
             ( last'.op = "reset_request" /\ PasswordResetRequestView_post(email) )
             => \A i \in DOMAIN reset_tokens :
                  reset_tokens[i].user = email => reset_tokens'[i].used ]_vars
    /\ [][ \A i \in DOMAIN reset_tokens :
             reset_tokens[i].used => reset_tokens'[i].used ]_vars
    /\ [][ ( passwords' # passwords \/ reset_tokens' # reset_tokens )
           => ( /\ last'.op \in {"reset_confirm", "reset_request"}
                /\ last'.code = 200
                /\ passwords' # passwords => last'.op = "reset_confirm" ) ]_vars
    /\ []( \A user \in RESET_USERS : Cardinality(C30_ValidTokens(user)) <= 1 )

\* C30 witness: a user has asked twice for a reset and has set a new password
\* with the second token; both tokens are used.
C30_Witness ==
    /\ Len(reset_tokens) >= 2
    /\ reset_tokens[1].user = "ann"
    /\ reset_tokens[2].user = "ann"
    /\ reset_tokens[1].used
    /\ reset_tokens[2].used
    /\ passwords["ann"] = "secret1"
    /\ last.op = "reset_confirm"
    /\ last.code = 200

=============================================================================
